---- MODULE Spec2Model ----
(***************************************************************************)
(* A model of my_exporter: the inclusion resolver (should_include), the    *)
(* notebook transformer (strip_notebook_outputs, convert_nb_to_py), the    *)
(* tree renderer (print_structure) and the export orchestrator             *)
(* (export_folder_contents, cli.main).                                     *)
(*                                                                         *)
(* File and directory names are the integers 1..MaxName; their numeric     *)
(* order stands for the lexicographic order of the names.  A path is the   *)
(* sequence of names from the export root, root_dir itself being << >>.    *)
(***************************************************************************)
EXTENDS Integers, Sequences, FiniteSets, TLC

\* Names per directory, depth of the directory tree, cells per notebook.
MaxName == 3
MaxDepth == 3
MaxCells == 2

Names == 1..MaxName

VARIABLES
    si_path, si_ignore, si_include, si_result,
    nb_content, nb_pc, stripped, restripped, converted, converted_raw,
    pc, scandir_order, ignore_lines, include_lines, cli, args,
    ignore_spec, include_spec, exclude_files, out, walk, walked,
    stream, unreadable, write_errors

si_vars == <<si_path, si_ignore, si_include, si_result>>
nb_vars == <<nb_content, nb_pc, stripped, restripped, converted, converted_raw>>
ex_vars == <<pc, scandir_order, ignore_lines, include_lines, cli, args,
             ignore_spec, include_spec, exclude_files, out, walk, walked,
             stream, unreadable, write_errors>>
vars == <<si_vars, nb_vars, ex_vars>>

(***************************************************************************)
(* Pattern matchers.  A PathSpec holds compiled patterns; Python's None is *)
(* the record NoSpec.  A pattern is a bare name, which under gitwildmatch  *)
(* matches a path when any component of the path carries that name.        *)
(***************************************************************************)
NoSpec == [given |-> FALSE, patterns |-> {}]

PathSpec(lines) == [given |-> TRUE, patterns |-> lines]

PathSpecs == {NoSpec} \cup {PathSpec(ps) : ps \in SUBSET Names}

match_file(spec, path) == \E i \in 1..Len(path) : path[i] \in spec.patterns

\* bool(spec) as "if include_spec" evaluates it: None is false, and a PathSpec
\* is a sized container (pathspec defines PathSpec.__len__ as the number of its
\* patterns), so a PathSpec without patterns is false as well.
Truthy(spec) == spec.given /\ spec.patterns /= {}

should_include(path, ignore, include) ==
    IF Truthy(include) /\ ~Truthy(ignore)
    THEN match_file(include, path)
    ELSE IF Truthy(ignore) /\ ~Truthy(include)
    THEN ~match_file(ignore, path)
    ELSE IF Truthy(include) /\ Truthy(ignore)
    THEN match_file(include, path) \/ ~match_file(ignore, path)
    ELSE TRUE

AllPaths == UNION {[1..k -> Names] : k \in 1..MaxDepth}

(***************************************************************************)
(* Notebook texts.  A text is one of                                       *)
(*   kind "text":  characters json.loads rejects (JSONDecodeError);        *)
(*   kind "json":  a JSON document `doc` serialised with `indent`;         *)
(*   kind "lines": "\n".join(lines), the pseudo-source of a notebook.      *)
(* A document is an object holding "cells" and notebook-level metadata, or *)
(* a JSON value that is not an object (top = "list").  "cells" is absent,  *)
(* null, or a list whose items are cell objects (obj) or other values.     *)
(* A source line is its characters before the trailing newlines (body) and *)
(* the number of trailing newlines (nl).                                   *)
(***************************************************************************)
NoCells == [form |-> "absent", items |-> <<>>]
NoDoc == [top |-> "none", cells |-> NoCells, metadata |-> ""]

PlainText(id) == [kind |-> "text", id |-> id, indent |-> 0, doc |-> NoDoc, lines |-> <<>>]
JsonText(indent, doc) == [kind |-> "json", id |-> "", indent |-> indent, doc |-> doc, lines |-> <<>>]
LinesText(lines) == [kind |-> "lines", id |-> "", indent |-> 0, doc |-> NoDoc, lines |-> lines]

SourceLine(body, nl) == [body |-> body, nl |-> nl]

Sources == { <<SourceLine("s1", 1), SourceLine("s2", 0)>>, <<SourceLine("s2", 2)>> }

\* outputs / execution_count of a cell: keys absent, cleared, or left by a run.
NoOutputs == [present |-> FALSE, items |-> <<>>]
AbsentRun == [outputs |-> NoOutputs, execution_count |-> "absent"]
ClearedRun == [outputs |-> [present |-> TRUE, items |-> <<>>], execution_count |-> "null"]
ExecutedRun == [outputs |-> [present |-> TRUE, items |-> <<"o1">>], execution_count |-> "1"]
CellRuns == {AbsentRun, ClearedRun, ExecutedRun}

CellObj(cell_type, source, run) ==
    [obj |-> TRUE, cell_type |-> cell_type, source |-> source,
     outputs |-> run.outputs, execution_count |-> run.execution_count]

\* A list item that is not an object, e.g. a number.
NotACell ==
    [obj |-> FALSE, cell_type |-> "", source |-> <<>>,
     outputs |-> NoOutputs, execution_count |-> "absent"]

CellObjs == { CellObj(t, s, r) : t \in {"code", "markdown", "raw"}, s \in Sources, r \in CellRuns }

SeqsUpTo(S, n) == UNION {[1..k -> S] : k \in 0..n}

ObjectDoc(cells, metadata) == [top |-> "object", cells |-> cells, metadata |-> metadata]
ListDoc == [top |-> "list", cells |-> NoCells, metadata |-> ""]
CellList(items) == [form |-> "list", items |-> items]

\* The documents the spec's data model calls notebooks: an object whose cells
\* are cell objects.
WellFormedDocs ==
    { ObjectDoc(CellList(cs), m) : cs \in SeqsUpTo(CellObjs, MaxCells), m \in {"m1", "m2"} }

MalformedDocs ==
    { ListDoc,
      ObjectDoc([form |-> "null", items |-> <<>>], "m1"),
      ObjectDoc(CellList(<<NotACell>>), "m1"),
      ObjectDoc(CellList(<<CellObj("code", <<SourceLine("s1", 1)>>, ExecutedRun),
                           NotACell>>), "m1") }

NotebookTexts ==
    { JsonText(i, d) : i \in {0, 2}, d \in WellFormedDocs \cup MalformedDocs }
    \cup { JsonText(0, ObjectDoc(NoCells, "m1")) }
    \cup { PlainText("t1") }

WellFormed(text) == text.kind = "json" /\ text.doc \in WellFormedDocs

\* The outcome of a call: a returned text, or the exception that escapes.
Return(text) == [raised |-> "", text |-> text]
Raise(exc) == [raised |-> exc, text |-> PlainText("")]
Unset == [raised |-> "unset", text |-> PlainText("")]

\* nb.get('cells', []) and the iteration over it.
CellsRaise(doc) ==
    IF doc.top /= "object" THEN "AttributeError"
    ELSE IF doc.cells.form = "null" THEN "TypeError"
    ELSE IF \E i \in 1..Len(doc.cells.items) : ~doc.cells.items[i].obj THEN "AttributeError"
    ELSE ""

\* A strip that does not look at the cell type.
StripCell_any_type(cell) ==
    [cell EXCEPT !.outputs = [present |-> TRUE, items |-> <<>>],
                 !.execution_count = "null"]

StripCell(cell) ==
    IF cell.cell_type = "code"
    THEN [cell EXCEPT !.outputs = [present |-> TRUE, items |-> <<>>],
                      !.execution_count = "null"]
    ELSE cell

\* A strip whose loop stops after the first code cell that still holds outputs.
strip_notebook_outputs_first_only(nb_text) ==
    IF nb_text.kind /= "json" THEN Return(nb_text)
    ELSE IF CellsRaise(nb_text.doc) /= "" THEN Raise(CellsRaise(nb_text.doc))
    ELSE LET nb == nb_text.doc
             items == nb.cells.items
             dirty == {i \in 1..Len(items) :
                          items[i].cell_type = "code" /\ items[i].outputs.items /= <<>>}
             stripped_nb ==
                 [nb EXCEPT !.cells.items =
                     [i \in 1..Len(items) |->
                         IF i \in dirty /\ \A k \in dirty : i <= k
                         THEN StripCell(items[i]) ELSE items[i]]]
         IN Return(JsonText(2, stripped_nb))

strip_notebook_outputs(nb_text) ==
    IF nb_text.kind /= "json" THEN Return(nb_text)
    ELSE IF CellsRaise(nb_text.doc) /= "" THEN Raise(CellsRaise(nb_text.doc))
    ELSE LET nb == nb_text.doc
             items == nb.cells.items
             stripped_nb == [nb EXCEPT !.cells.items = [i \in 1..Len(items) |-> StripCell(items[i])]]
         IN Return(JsonText(2, stripped_nb))

\* str.capitalize() of the cell types in use.
Capitalize(cell_type) ==
    CASE cell_type = "raw" -> "Raw"
      [] cell_type = "markdown" -> "Markdown"
      [] cell_type = "code" -> "Code"
      [] OTHER -> cell_type

\* line.rstrip('\n')
Rstrip(line) == line.body

SourceLines(source, prefix) ==
    [i \in 1..Len(source) |-> prefix \o <<Rstrip(source[i])>>]

\* A conversion that also writes what a cell's outputs hold.
CellLines_with_outputs(cell) ==
    IF cell.cell_type = "markdown"
    THEN <<<<"# === Markdown Cell ===">>>> \o SourceLines(cell.source, <<"# ">>) \o <<<<"">>>>
    ELSE IF cell.cell_type = "code"
    THEN <<<<"# === Code Cell ===">>>> \o SourceLines(cell.source, << >>)
         \o [i \in 1..Len(cell.outputs.items) |-> <<"# ", cell.outputs.items[i]>>]
         \o <<<<"">>>>
    ELSE <<<<"# === ", Capitalize(cell.cell_type), " Cell (Unsupported) ===">>>>
         \o SourceLines(cell.source, <<"# ">>) \o <<<<"">>>>

\* The lines one cell appends: each line is the sequence of its pieces.
CellLines(cell) ==
    IF cell.cell_type = "markdown"
    THEN <<<<"# === Markdown Cell ===">>>> \o SourceLines(cell.source, <<"# ">>) \o <<<<"">>>>
    ELSE IF cell.cell_type = "code"
    THEN <<<<"# === Code Cell ===">>>> \o SourceLines(cell.source, << >>) \o <<<<"">>>>
    ELSE <<<<"# === ", Capitalize(cell.cell_type), " Cell (Unsupported) ===">>>>
         \o SourceLines(cell.source, <<"# ">>) \o <<<<"">>>>

\* A conversion that puts each cell before the cells already rendered.
RECURSIVE ConvertCells_reversed(_)
ConvertCells_reversed(items) ==
    IF items = << >> THEN << >>
    ELSE ConvertCells_reversed(Tail(items)) \o CellLines(Head(items))

RECURSIVE ConvertCells(_)
ConvertCells(items) ==
    IF items = << >> THEN << >>
    ELSE CellLines(Head(items)) \o ConvertCells(Tail(items))

convert_nb_to_py(nb_stripped_json) ==
    IF nb_stripped_json.kind /= "json" THEN Return(nb_stripped_json)
    ELSE IF CellsRaise(nb_stripped_json.doc) /= "" THEN Raise(CellsRaise(nb_stripped_json.doc))
    ELSE Return(LinesText(ConvertCells(nb_stripped_json.doc.cells.items)))

(***************************************************************************)
(* The directory tree under root_dir.  Every directory holds the names     *)
(* 1..MaxName; an entry with an odd name above the deepest level is a      *)
(* directory, every other entry is a regular file.  Files named 1 carry    *)
(* the extension .ipynb.  Every directory can be listed.  The files whose   *)
(* name is in `unreadable` cannot be opened for reading; the two pattern   *)
(* files always can.  The ignore file, when it exists, is the root's file  *)
(* 2; the include file is the last entry of the deepest first directory.   *)
(***************************************************************************)
isdir(path) ==
    path = << >> \/ (Len(path) < MaxDepth /\ path[Len(path)] % 2 = 1)

endswith_ipynb(filename) == filename = 1

NoPath == <<0>>
IgnoreFilePath == <<2>>
MissingPath == <<0, 2>>
IncludeFilePath == [i \in 1..MaxDepth |-> IF i = MaxDepth THEN MaxName ELSE 1]

isfile(path) ==
    /\ path \in AllPaths
    /\ \A k \in 1..(Len(path) - 1) : isdir(SubSeq(path, 1, k))
    /\ ~isdir(path)

\* os.listdir / os.scandir: the names of a directory in the order the
\* filesystem lists them.
listdir(path, order) ==
    IF order = "asc" THEN [i \in 1..MaxName |-> i]
    ELSE [i \in 1..MaxName |-> MaxName + 1 - i]

sorted(entries) == SortSeq(entries, LAMBDA a, b : a < b)

\* open(filepath, 'r') succeeds.
readable(path) ==
    path[Len(path)] \notin unreadable \/ path \in {IgnoreFilePath, IncludeFilePath}

RECURSIVE Flatten(_)
Flatten(seqs) ==
    IF seqs = << >> THEN << >> ELSE Head(seqs) \o Flatten(Tail(seqs))

\* The notebook stored in a .ipynb file: a notebook with outputs, characters
\* that are not JSON, a JSON list, or a notebook without outputs.
ExecutedNotebook ==
    JsonText(0, ObjectDoc(CellList(
        << CellObj("markdown", <<SourceLine("s1", 1), SourceLine("s2", 0)>>, AbsentRun),
           CellObj("code", <<SourceLine("s1", 1), SourceLine("s2", 0)>>, ExecutedRun) >>), "m1"))

ClearedNotebook ==
    JsonText(2, ObjectDoc(CellList(
        << CellObj("code", <<SourceLine("s2", 2)>>, ClearedRun) >>), "m1"))

read(path) ==
    IF ~endswith_ipynb(path[Len(path)]) THEN PlainText("data")
    ELSE IF path[1] = 1
    THEN (IF path[Len(path) - 1] = 1 THEN ExecutedNotebook ELSE PlainText("t1"))
    ELSE (IF path[Len(path) - 1] = 1 THEN JsonText(0, ListDoc) ELSE ClearedNotebook)

(***************************************************************************)
(* What out.write receives.  A tree line keeps its prefix as the sequence  *)
(* of indentation units ("|   " for the continuing bar, "    " for the     *)
(* terminating blank), its connector ("|-- " for the tee, "L-- " for the   *)
(* corner) and the entry; `path` records which entry the line is for.      *)
(***************************************************************************)
Item(kind, str, path, prefix, connector, text) ==
    [kind |-> kind, str |-> str, path |-> path, prefix |-> prefix,
     connector |-> connector, text |-> text]

Literal(str) == Item("literal", str, NoPath, << >>, "", PlainText(""))
TreeLine(prefix, connector, path) == Item("tree", "", path, prefix, connector, PlainText(""))
Marker(relpath) == Item("marker", "", relpath, << >>, "", PlainText(""))
Content(path, text) == Item("content", "", path, << >>, "", text)
Placeholder(path, exc) == Item("placeholder", exc, path, << >>, "", PlainText(""))

Included(path) == should_include(path, ignore_spec, include_spec)

RECURSIVE print_structure(_, _)
print_structure(root_dir, prefix) ==
    LET entries == SelectSeq(sorted(listdir(root_dir, scandir_order)),
                             LAMBDA e : Included(root_dir \o <<e>>))
        EntryLines(i) ==
            LET path == root_dir \o <<entries[i]>>
                connector == IF i < Len(entries) THEN "|-- " ELSE "L-- "
                new_prefix == IF i < Len(entries) THEN prefix \o <<"|   ">>
                              ELSE prefix \o <<"    ">>
            IN  IF path \in exclude_files THEN << >>
                ELSE <<TreeLine(prefix, connector, path)>>
                     \o (IF isdir(path) THEN print_structure(path, new_prefix) ELSE << >>)
    IN  Flatten([i \in 1..Len(entries) |-> EntryLines(i)])

\* A dump that writes an unreadable file as if it were empty.
FileContent_unreadable_empty(path) ==
    IF ~readable(path) THEN Content(path, PlainText(""))
    ELSE IF endswith_ipynb(path[Len(path)])
    THEN LET nb_content_ == read(path)
             stripped_content == strip_notebook_outputs(nb_content_)
         IN  IF args.convert_notebook_to_py
             THEN (IF stripped_content.raised /= ""
                   THEN Placeholder(path, stripped_content.raised)
                   ELSE LET py_content == convert_nb_to_py(stripped_content.text)
                        IN  IF py_content.raised /= ""
                            THEN Placeholder(path, py_content.raised)
                            ELSE Content(path, py_content.text))
             ELSE IF args.exclude_notebook_outputs
             THEN (IF stripped_content.raised /= ""
                   THEN Placeholder(path, stripped_content.raised)
                   ELSE Content(path, stripped_content.text))
             ELSE Content(path, nb_content_)
    ELSE Content(path, read(path))

\* Lines 345-373: what is written for an admitted file after its marker.
FileContent(path) ==
    IF ~readable(path) THEN Placeholder(path, "PermissionError")
    ELSE IF endswith_ipynb(path[Len(path)])
    THEN LET nb_content_ == read(path)
             stripped_content == strip_notebook_outputs(nb_content_)
         IN  IF args.convert_notebook_to_py
             THEN (IF stripped_content.raised /= ""
                   THEN Placeholder(path, stripped_content.raised)
                   ELSE LET py_content == convert_nb_to_py(stripped_content.text)
                        IN  IF py_content.raised /= ""
                            THEN Placeholder(path, py_content.raised)
                            ELSE Content(path, py_content.text))
             ELSE IF args.exclude_notebook_outputs
             THEN (IF stripped_content.raised /= ""
                   THEN Placeholder(path, stripped_content.raised)
                   ELSE Content(path, stripped_content.text))
             ELSE Content(path, nb_content_)
    ELSE Content(path, read(path))

\* A dump that skips the ignore file only.
FileBlock_include_file_kept(filepath) ==
    IF args.ignore_file /= NoPath /\ filepath = args.ignore_file THEN << >>
    ELSE IF ~Included(filepath) THEN << >>
    ELSE <<Marker(filepath), FileContent(filepath), Literal("\n\n")>>

\* A dump that does not ask should_include about the file.
FileBlock_unfiltered(filepath) ==
    IF args.ignore_file /= NoPath /\ filepath = args.ignore_file THEN << >>
    ELSE IF args.include_file /= NoPath /\ filepath = args.include_file THEN << >>
    ELSE <<Marker(filepath), FileContent(filepath), Literal("\n\n")>>

\* Lines 322-374: one file of the directory being walked.
FileBlock(filepath) ==
    IF args.ignore_file /= NoPath /\ filepath = args.ignore_file THEN << >>
    ELSE IF args.include_file /= NoPath /\ filepath = args.include_file THEN << >>
    ELSE IF ~Included(filepath) THEN << >>
    ELSE <<Marker(filepath), FileContent(filepath), Literal("\n\n")>>

\* A walk that leaves `dirs` as os.walk listed it.
prune_nothing(root, dirs) == dirs

\* Lines 316-319: dirs[:] = [d for d in dirs if should_include(...)].
prune(root, dirs) == SelectSeq(dirs, LAMBDA d : Included(root \o <<d>>))

(***************************************************************************)
(* The export.  The caller's ignore_file / include_file arguments and the  *)
(* pattern lines of those files are fixed before the call; the flags come  *)
(* from cli.main or from a direct call of export_folder_contents.          *)
(***************************************************************************)
NoCli == [used |-> FALSE, export_nb_as_py |-> FALSE, include_nb_outputs |-> FALSE]

\* The destination stream.  A stream without fault takes every write.  A
\* faulty stream cannot be opened ("open"), or rejects with an OSError the
\* first write of one class of items; a sticky stream goes on rejecting every
\* write after the first one it rejected.
Reliable == [fault |-> "none", sticky |-> FALSE]

Faults ==
    {"open", "rule", "structure_header", "tree", "blank", "contents_header",
     "marker", "content", "placeholder", "separator"}

Streams ==
    {Reliable} \cup {[fault |-> f, sticky |-> FALSE] : f \in Faults}
    \cup {[fault |-> "content", sticky |-> TRUE]}

\* The class of an item handed to out.write.
Class(item) ==
    IF item.kind /= "literal" THEN item.kind
    ELSE CASE item.str = "DIRECTORY STRUCTURE\n" -> "structure_header"
           [] item.str = "FILE CONTENTS\n" -> "contents_header"
           [] item.str = "\n" -> "blank"
           [] item.str = "\n\n" -> "separator"
           [] OTHER -> "rule"

Rejects(item, errors) ==
    IF stream.sticky THEN errors > 0 \/ Class(item) = stream.fault
    ELSE errors = 0 /\ Class(item) = stream.fault

\* The stream as an export leaves it: what was written, how many writes
\* failed, and whether an exception is on its way to the caller.
Written(o, e, r) == [out |-> o, write_errors |-> e, raised |-> r]

\* out.write(item) outside the try of lines 345-373: an OSError leaves the
\* with block and is raised again by `except IOError` (lines 375-377).
write(w, item) ==
    IF w.raised THEN w
    ELSE IF Rejects(item, w.write_errors) THEN Written(w.out, w.write_errors + 1, TRUE)
    ELSE Written(Append(w.out, item), w.write_errors, FALSE)

\* out.write(content) inside the try of lines 345-370: `except Exception`
\* (lines 371-373) catches the OSError and writes the placeholder in place.
write_content(w, item) ==
    IF w.raised THEN w
    ELSE IF Rejects(item, w.write_errors)
    THEN write(Written(w.out, w.write_errors + 1, FALSE), Placeholder(item.path, "OSError"))
    ELSE Written(Append(w.out, item), w.write_errors, FALSE)

\* The writes of `items`, one after the other: every item before the first
\* one the stream rejects is written, the rejected one raises or gives way to
\* the placeholder, and the items after it follow on the stream as it is then.
RECURSIVE write_all(_, _)
write_all(w, items) ==
    LET rejected == {i \in 1..Len(items) : Rejects(items[i], w.write_errors)}
    IN  IF w.raised THEN w
        ELSE IF rejected = {} THEN Written(w.out \o items, w.write_errors, FALSE)
        ELSE LET k == CHOOSE i \in rejected : \A j \in rejected : i <= j
                 at == Written(w.out \o SubSeq(items, 1, k - 1), w.write_errors, FALSE)
                 after == IF items[k].kind = "content"
                          THEN write_content(at, items[k])
                          ELSE write(at, items[k])
             IN  write_all(after, SubSeq(items, k + 1, Len(items)))

\* open(output_file, 'w') of line 287.
open(w) ==
    IF stream.fault = "open" THEN Written(w.out, w.write_errors + 1, TRUE) ELSE w

ExIdle ==
    /\ pc = "off"
    /\ scandir_order = "asc"
    /\ ignore_lines = {}
    /\ include_lines = {}
    /\ cli = NoCli
    /\ args = [ignore_file |-> NoPath, include_file |-> NoPath,
               exclude_notebook_outputs |-> TRUE, convert_notebook_to_py |-> FALSE]
    /\ ignore_spec = NoSpec
    /\ include_spec = NoSpec
    /\ exclude_files = {}
    /\ out = << >>
    /\ walk = << >>
    /\ walked = << >>
    /\ stream = Reliable
    /\ unreadable = {}
    /\ write_errors = 0

\* The surroundings of an export: a reliable stream with any set of
\* unreadable names, or a faulty stream with every file readable.  Exports
\* given an include file run in sound surroundings.
Sound == [stream |-> Reliable, unreadable |-> {}]

Environments ==
    {[stream |-> Reliable, unreadable |-> u] : u \in SUBSET Names}
    \cup {[stream |-> s, unreadable |-> {}] : s \in Streams}

ExInit ==
    /\ pc = "idle"
    /\ scandir_order \in {"asc", "desc"}
    /\ \E ignore_file \in {NoPath, MissingPath, IgnoreFilePath},
          include_file \in {NoPath, IncludeFilePath},
          env \in Environments :
          /\ include_file = NoPath \/ env = Sound
          /\ stream = env.stream
          /\ unreadable = env.unreadable
          /\ args = [ignore_file |-> ignore_file, include_file |-> include_file,
                     exclude_notebook_outputs |-> TRUE, convert_notebook_to_py |-> FALSE]
          /\ ignore_lines \in (IF ignore_file = IgnoreFilePath THEN SUBSET Names ELSE {{}})
          /\ include_lines \in (IF include_file = IncludeFilePath THEN SUBSET Names ELSE {{}})
    /\ cli = NoCli
    /\ ignore_spec = NoSpec
    /\ include_spec = NoSpec
    /\ exclude_files = {}
    /\ out = << >>
    /\ walk = << >>
    /\ walked = << >>
    /\ write_errors = 0

\* cli.py lines 65-81; --ignore-file always carries a path ('.gitignore' by
\* default).
main ==
    /\ pc = "idle"
    /\ args.ignore_file /= NoPath
    /\ \E export_nb_as_py \in BOOLEAN, include_nb_outputs \in BOOLEAN :
          /\ cli' = [used |-> TRUE, export_nb_as_py |-> export_nb_as_py,
                     include_nb_outputs |-> include_nb_outputs]
          /\ args' = [args EXCEPT
                        !.exclude_notebook_outputs =
                            IF export_nb_as_py THEN TRUE ELSE ~include_nb_outputs,
                        !.convert_notebook_to_py = export_nb_as_py]
    /\ pc' = "called"
    /\ UNCHANGED <<scandir_order, ignore_lines, include_lines, ignore_spec, include_spec,
                   exclude_files, out, walk, walked, stream, unreadable, write_errors>>

\* A direct call of export_folder_contents, as the tests make it.
call_export_folder_contents ==
    /\ pc = "idle"
    /\ \E exclude_notebook_outputs \in BOOLEAN, convert_notebook_to_py \in BOOLEAN :
          args' = [args EXCEPT !.exclude_notebook_outputs = exclude_notebook_outputs,
                               !.convert_notebook_to_py = convert_notebook_to_py]
    /\ pc' = "called"
    /\ UNCHANGED <<scandir_order, ignore_lines, include_lines, cli, ignore_spec,
                   include_spec, exclude_files, out, walk, walked, stream, unreadable,
                   write_errors>>

\* The pattern source loader: the compiled matcher of a pattern file's lines.
load_ignore_patterns(ignore_file) == PathSpec(ignore_lines)
load_include_patterns(include_file) == PathSpec(include_lines)

\* export_folder_contents lines 250-284.
load_patterns ==
    /\ pc = "called"
    /\ LET ignore_file == IF args.ignore_file /= NoPath /\ ~isfile(args.ignore_file)
                          THEN NoPath ELSE args.ignore_file
       IN  /\ args' = [args EXCEPT !.ignore_file = ignore_file]
           /\ ignore_spec' = IF ignore_file /= NoPath
                             THEN load_ignore_patterns(ignore_file) ELSE NoSpec
           /\ include_spec' = IF args.include_file /= NoPath
                              THEN load_include_patterns(args.include_file) ELSE NoSpec
           /\ exclude_files' = (IF ignore_file /= NoPath THEN {ignore_file} ELSE {})
                               \cup (IF args.include_file /= NoPath
                                     THEN {args.include_file} ELSE {})
    /\ pc' = "structure"
    /\ UNCHANGED <<scandir_order, ignore_lines, include_lines, cli, out, walk, walked,
                   stream, unreadable, write_errors>>

\* A structure section that renders the tree before its header.
structure_section_tree_first ==
    print_structure(<< >>, << >>)
    \o << Literal("================\n"), Literal("DIRECTORY STRUCTURE\n"),
          Literal("================\n\n") >>
    \o << Literal("\n") >>

\* Lines 290-306: the writes of the structure section.
structure_section ==
    << Literal("================\n"), Literal("DIRECTORY STRUCTURE\n"),
       Literal("================\n\n") >>
    \o print_structure(<< >>, << >>)
    \o << Literal("\n") >>

\* Lines 307-310: the writes of the contents header.
contents_header ==
    << Literal("================\n"), Literal("FILE CONTENTS\n"),
       Literal("================\n\n") >>

\* export_folder_contents lines 286-306: the stream is opened and the
\* structure section written.
write_structure ==
    /\ pc = "structure"
    /\ LET w == write_all(open(Written(out, write_errors, FALSE)), structure_section)
       IN  /\ out' = w.out
           /\ write_errors' = w.write_errors
           /\ pc' = IF w.raised THEN "raised" ELSE "contents"
    /\ UNCHANGED <<scandir_order, ignore_lines, include_lines, cli, args, ignore_spec,
                   include_spec, exclude_files, walk, walked, stream, unreadable>>

\* export_folder_contents lines 307-314: the header, and os.walk(root_dir) begins.
write_contents_header ==
    /\ pc = "contents"
    /\ LET w == write_all(Written(out, write_errors, FALSE), contents_header)
       IN  /\ out' = w.out
           /\ write_errors' = w.write_errors
           /\ pc' = IF w.raised THEN "raised" ELSE "walk"
           /\ walk' = IF w.raised THEN walk ELSE << << >> >>
    /\ UNCHANGED <<scandir_order, ignore_lines, include_lines, cli, args, ignore_spec,
                   include_spec, exclude_files, walked, stream, unreadable>>

\* export_folder_contents lines 314-374: one iteration of the loop over
\* os.walk, which yields a directory before the directories left in `dirs`.
walk_step ==
    /\ pc = "walk"
    /\ walk /= << >>
    /\ LET root == Head(walk)
           entries == listdir(root, scandir_order)
           dirs == SelectSeq(entries, LAMBDA e : isdir(root \o <<e>>))
           files == SelectSeq(entries, LAMBDA e : ~isdir(root \o <<e>>))
           kept == prune(root, dirs)
           w == write_all(Written(out, write_errors, FALSE),
                          Flatten([i \in 1..Len(files) |-> FileBlock(root \o <<files[i]>>)]))
       IN  /\ out' = w.out
           /\ write_errors' = w.write_errors
           /\ pc' = IF w.raised THEN "raised" ELSE pc
           /\ walk' = [i \in 1..Len(kept) |-> root \o <<kept[i]>>] \o Tail(walk)
           /\ walked' = Append(walked, root)
    /\ UNCHANGED <<scandir_order, ignore_lines, include_lines, cli, args, ignore_spec,
                   include_spec, exclude_files, stream, unreadable>>

\* export_folder_contents lines 375-379: the walk is over, the stream is
\* closed and the call returns.
finish ==
    /\ pc = "walk"
    /\ walk = << >>
    /\ pc' = "done"
    /\ UNCHANGED <<scandir_order, ignore_lines, include_lines, cli, args, ignore_spec,
                   include_spec, exclude_files, out, walk, walked, stream, unreadable,
                   write_errors>>

(***************************************************************************)
(* The inclusion resolver on its own: a caller hands should_include a path *)
(* and two optional matchers.                                              *)
(***************************************************************************)
SiIdle ==
    /\ si_path = << >>
    /\ si_ignore = NoSpec
    /\ si_include = NoSpec
    /\ si_result = "unset"

SiInit ==
    /\ si_path \in {p \in AllPaths : Len(p) <= 2}
    /\ si_ignore \in PathSpecs
    /\ si_include \in PathSpecs
    /\ si_result = "unset"

call_should_include ==
    /\ si_path /= << >>
    /\ si_result = "unset"
    /\ si_result' = IF should_include(si_path, si_ignore, si_include)
                    THEN "True" ELSE "False"
    /\ UNCHANGED <<si_path, si_ignore, si_include>>

(***************************************************************************)
(* The notebook transformer on its own: strip a text, strip the result     *)
(* again, convert the stripped text (the export's pipeline), and convert   *)
(* the text as given.                                                      *)
(***************************************************************************)
NbIdle ==
    /\ nb_content = PlainText("")
    /\ nb_pc = "off"
    /\ stripped = Unset
    /\ restripped = Unset
    /\ converted = Unset
    /\ converted_raw = Unset

NbInit ==
    /\ nb_content \in NotebookTexts
    /\ nb_pc = "strip"
    /\ stripped = Unset
    /\ restripped = Unset
    /\ converted = Unset
    /\ converted_raw = Unset

call_strip_notebook_outputs ==
    /\ nb_pc = "strip"
    /\ stripped' = strip_notebook_outputs(nb_content)
    /\ nb_pc' = IF stripped'.raised = "" THEN "restrip" ELSE "convert_raw"
    /\ UNCHANGED <<nb_content, restripped, converted, converted_raw>>

call_strip_again ==
    /\ nb_pc = "restrip"
    /\ restripped' = strip_notebook_outputs(stripped.text)
    /\ nb_pc' = "convert"
    /\ UNCHANGED <<nb_content, stripped, converted, converted_raw>>

call_convert_stripped ==
    /\ nb_pc = "convert"
    /\ converted' = convert_nb_to_py(stripped.text)
    /\ nb_pc' = "convert_raw"
    /\ UNCHANGED <<nb_content, stripped, restripped, converted_raw>>

call_convert_nb_to_py ==
    /\ nb_pc = "convert_raw"
    /\ converted_raw' = convert_nb_to_py(nb_content)
    /\ nb_pc' = "done"
    /\ UNCHANGED <<nb_content, stripped, restripped, converted>>

(***************************************************************************)
(* Specifications: the export, the inclusion resolver, the transformer.    *)
(***************************************************************************)
Init == ExInit /\ SiIdle /\ NbIdle

Next ==
    \/ (main /\ UNCHANGED <<si_vars, nb_vars>>)
    \/ (call_export_folder_contents /\ UNCHANGED <<si_vars, nb_vars>>)
    \/ (load_patterns /\ UNCHANGED <<si_vars, nb_vars>>)
    \/ (write_structure /\ UNCHANGED <<si_vars, nb_vars>>)
    \/ (write_contents_header /\ UNCHANGED <<si_vars, nb_vars>>)
    \/ (walk_step /\ UNCHANGED <<si_vars, nb_vars>>)
    \/ (finish /\ UNCHANGED <<si_vars, nb_vars>>)

Spec == Init /\ [][Next]_vars

SiNext == call_should_include /\ UNCHANGED <<nb_vars, ex_vars>>

InitInclude == SiInit /\ NbIdle /\ ExIdle

SpecInclude == InitInclude /\ [][SiNext]_vars

NbNext ==
    \/ (call_strip_notebook_outputs /\ UNCHANGED <<si_vars, ex_vars>>)
    \/ (call_strip_again /\ UNCHANGED <<si_vars, ex_vars>>)
    \/ (call_convert_stripped /\ UNCHANGED <<si_vars, ex_vars>>)
    \/ (call_convert_nb_to_py /\ UNCHANGED <<si_vars, ex_vars>>)

InitNb == NbInit /\ SiIdle /\ ExIdle

SpecNb == InitNb /\ [][NbNext]_vars

(***************************************************************************)
(* Claims.                                                                 *)
(***************************************************************************)

\* The decision table of the specification, a matcher being present when the
\* caller supplied one.
DecisionTable(path, ignore, include) ==
    IF ~ignore.given /\ ~include.given THEN TRUE
    ELSE IF ~ignore.given /\ include.given THEN match_file(include, path)
    ELSE IF ignore.given /\ ~include.given THEN ~match_file(ignore, path)
    ELSE match_file(include, path) \/ ~match_file(ignore, path)

\* C1: should_include follows the four-row decision table for every path and
\* every pair of matchers: true with neither matcher; with only an include
\* matcher, true iff it matches; with only an ignore matcher, true iff it does
\* not match; with both, true iff the include matcher matches or the ignore
\* matcher does not.
C1_DecisionTable ==
    si_result /= "unset" =>
        (si_result = "True") = DecisionTable(si_path, si_ignore, si_include)

\* What the notebook policy selects for a notebook text: conversion of the
\* stripped text, the stripped text, or the text as read.
PolicyContent(raw) ==
    IF args.convert_notebook_to_py
    THEN convert_nb_to_py(strip_notebook_outputs(raw).text).text
    ELSE IF args.exclude_notebook_outputs
    THEN strip_notebook_outputs(raw).text
    ELSE raw

IsNotebookMarker(i) ==
    /\ out[i].kind = "marker"
    /\ endswith_ipynb(out[i].path[Len(out[i].path)])

\* C2: for every admitted notebook file the content written is selected by
\* the policy only (conversion of the stripped text when converting, whatever
\* exclude_notebook_outputs says; the stripped text when only stripping; the
\* original text otherwise), and at the CLI --export-nb-as-py overrides
\* --include-nb-outputs.
C2_PolicySelectsContent ==
    /\ \A i \in 1..Len(out) :
          (IsNotebookMarker(i) /\ i < Len(out)) =>
              out[i + 1] = Content(out[i].path, PolicyContent(read(out[i].path)))
    /\ (cli.used /\ pc /= "idle") =>
          /\ args.convert_notebook_to_py = cli.export_nb_as_py
          /\ args.exclude_notebook_outputs =
                (cli.export_nb_as_py \/ ~cli.include_nb_outputs)

CodeCells(doc) ==
    {i \in 1..Len(doc.cells.items) : doc.cells.items[i].cell_type = "code"}

\* C3: stripping a well-formed notebook returns a document in which every
\* code cell has empty outputs and a null execution_count, and the number and
\* order of cells, each cell's kind and source, every non-code cell in full
\* and the notebook-level metadata are unchanged.
C3_StripFrame ==
    (stripped.raised /= "unset" /\ WellFormed(nb_content)) =>
        /\ stripped.raised = ""
        /\ stripped.text.kind = "json"
        /\ LET before == nb_content.doc
               after == stripped.text.doc
           IN  /\ after.top = before.top
               /\ after.metadata = before.metadata
               /\ after.cells.form = before.cells.form
               /\ Len(after.cells.items) = Len(before.cells.items)
               /\ \A i \in 1..Len(before.cells.items) :
                     LET b == before.cells.items[i]
                         a == after.cells.items[i]
                     IN  /\ a.obj = b.obj
                         /\ a.cell_type = b.cell_type
                         /\ a.source = b.source
                         /\ IF b.cell_type = "code"
                            THEN a.outputs.items = << >> /\ a.execution_count = "null"
                            ELSE a = b

\* A notebook with an executed code cell and a non-code cell has been stripped.
C3_Witness ==
    /\ stripped.raised = ""
    /\ WellFormed(nb_content)
    /\ \E i \in CodeCells(nb_content.doc) :
          nb_content.doc.cells.items[i].outputs.items /= << >>
    /\ \E i \in 1..Len(nb_content.doc.cells.items) :
          /\ nb_content.doc.cells.items[i].cell_type /= "code"
          /\ nb_content.doc.cells.items[i].outputs.items /= << >>

\* C4: strip_outputs is idempotent: stripping the stripped text of a
\* well-formed notebook returns the stripped text.
C4_StripIdempotent ==
    (restripped.raised /= "unset" /\ WellFormed(nb_content)) => restripped = stripped

\* A notebook whose stripped text differs from it has been stripped twice.
C4_Witness ==
    /\ restripped.raised = ""
    /\ WellFormed(nb_content)
    /\ stripped.text /= nb_content
    /\ \E i \in CodeCells(nb_content.doc) :
          nb_content.doc.cells.items[i].outputs.items /= << >>

\* Text that is not a well-formed notebook: not JSON, JSON whose top level is
\* not an object, or cells that are not a list of cell objects.
Malformed(text) ==
    \/ text.kind /= "json"
    \/ text.doc.top /= "object"
    \/ text.doc.cells.form = "null"
    \/ \E i \in 1..Len(text.doc.cells.items) : ~text.doc.cells.items[i].obj

\* C5: for every text that is not a well-formed notebook, strip_outputs and
\* to_pseudo_source each return exactly their input and no exception escapes.
C5_MalformedReturnsInput ==
    /\ (Malformed(nb_content) /\ stripped.raised /= "unset") =>
          stripped = Return(nb_content)
    /\ (Malformed(nb_content) /\ converted_raw.raised /= "unset") =>
          converted_raw = Return(nb_content)

\* The text held by the outputs of a document's cells.
OutputTexts(doc) ==
    UNION { {doc.cells.items[i].outputs.items[j] :
                j \in 1..Len(doc.cells.items[i].outputs.items)} :
            i \in 1..Len(doc.cells.items) }

HeaderLines ==
    { <<"# === Markdown Cell ===">>, <<"# === Code Cell ===">> }
    \cup { <<"# === ", Capitalize(t), " Cell (Unsupported) ===">> : t \in {"raw", ""} }

\* The lines a document's source lines may give: verbatim or commented out.
DerivedLines(doc) ==
    UNION { UNION { { <<doc.cells.items[i].source[j].body>>,
                      <<"# ", doc.cells.items[i].source[j].body>> } :
                    j \in 1..Len(doc.cells.items[i].source) } :
            i \in 1..Len(doc.cells.items) }

OutputFree(result) ==
    (result.raised = "" /\ result.text.kind = "lines") =>
        \A i \in 1..Len(result.text.lines) :
            /\ result.text.lines[i] \in
                  HeaderLines \cup { <<"">> } \cup DerivedLines(nb_content.doc)
            /\ \A j \in 1..Len(result.text.lines[i]) :
                  result.text.lines[i][j] \notin OutputTexts(nb_content.doc)

\* C6: the pseudo-source of any notebook input holds no text taken from a
\* cell's outputs: every line is a cell header, a blank separator, or derived
\* from a cell's source lines.
C6_NoOutputText == OutputFree(converted) /\ OutputFree(converted_raw)

\* A notebook whose code cell holds outputs has been converted as given.
C6_Witness ==
    /\ converted_raw.raised = ""
    /\ converted_raw.text.kind = "lines"
    /\ \E i \in CodeCells(nb_content.doc) :
          nb_content.doc.cells.items[i].outputs.items /= << >>

\* The group of lines the specification gives one cell.
CellGroup(cell) ==
    LET header == IF cell.cell_type = "code" THEN <<"# === Code Cell ===">>
                  ELSE IF cell.cell_type = "markdown" THEN <<"# === Markdown Cell ===">>
                  ELSE <<"# === ", Capitalize(cell.cell_type), " Cell (Unsupported) ===">>
        body == [j \in 1..Len(cell.source) |->
                    IF cell.cell_type = "code" THEN <<cell.source[j].body>>
                    ELSE <<"# ", cell.source[j].body>>]
    IN  <<header>> \o body \o << <<"">> >>

\* C7: to_pseudo_source renders the cells of a parsed notebook in document
\* order, one group per cell: a header naming the kind, the source lines in
\* order (verbatim for code, prefixed with "# " for markdown and, under an
\* "(Unsupported)" header, for any other kind), then one blank line.
C7_CellGroups ==
    (converted_raw.raised /= "unset" /\ WellFormed(nb_content)) =>
        /\ converted_raw.raised = ""
        /\ converted_raw.text.kind = "lines"
        /\ converted_raw.text.lines =
              Flatten([i \in 1..Len(nb_content.doc.cells.items) |->
                          CellGroup(nb_content.doc.cells.items[i])])

\* A notebook of two cells of different kinds has been converted.
C7_Witness ==
    /\ converted_raw.raised = ""
    /\ WellFormed(nb_content)
    /\ Len(nb_content.doc.cells.items) = 2
    /\ nb_content.doc.cells.items[1].cell_type = "markdown"
    /\ nb_content.doc.cells.items[2].cell_type = "raw"
    /\ nb_content.doc.cells.items[1].source /= nb_content.doc.cells.items[2].source

\* The children of a directory that pass should_include and are not in the
\* exclusion set, in lexicographic order.
Surviving(dir) ==
    SelectSeq([n \in 1..MaxName |-> n],
              LAMBDA n : Included(dir \o <<n>>) /\ (dir \o <<n>>) \notin exclude_files)

\* The tree of the specification: a line per surviving child, the corner for
\* the last one and the tee for the others.
RECURSIVE RenderedTree(_, _)
RenderedTree(dir, prefix) ==
    LET surviving == Surviving(dir)
        last(i) == i = Len(surviving)
    IN  Flatten([i \in 1..Len(surviving) |->
            <<TreeLine(prefix, IF last(i) THEN "L-- " ELSE "|-- ", dir \o <<surviving[i]>>)>>
            \o (IF isdir(dir \o <<surviving[i]>>)
                THEN RenderedTree(dir \o <<surviving[i]>>,
                                  prefix \o <<IF last(i) THEN "    " ELSE "|   ">>)
                ELSE << >>)])

TreeLinesOf(items) == SelectSeq(items, LAMBDA item : item.kind = "tree")

StructureWritten == pc \in {"contents", "walk", "done"}

\* C8: at every level of the rendered tree the surviving children are emitted
\* one line each in lexicographic order, the last surviving child with the
\* corner connector and the terminating prefix for its children, every other
\* one with the tee connector and the continuing prefix.
C8_LastSurvivingChild ==
    StructureWritten => TreeLinesOf(out) = RenderedTree(<< >>, << >>)

RuleFiles ==
    (IF args.ignore_file /= NoPath /\ isfile(args.ignore_file)
     THEN {args.ignore_file} ELSE {})
    \cup (IF args.include_file /= NoPath THEN {args.include_file} ELSE {})

\* C9: the ignore file (when it exists) and the include file (when supplied)
\* get no line in the rendered tree and no path marker or content in the
\* content dump, whatever the matchers answer for their paths.
C9_RuleFilesExcluded ==
    \A i \in 1..Len(out) :
        out[i].kind \in {"tree", "marker", "content", "placeholder"} =>
            out[i].path \notin RuleFiles

Ancestors(path) == {SubSeq(path, 1, k) : k \in 1..(Len(path) - 1)}

HasMarker(path) == \E i \in 1..Len(out) : out[i] = Marker(path)

\* An export ended in which both rule files exist, the include matcher matches
\* both of them, and the directories that hold them were rendered and dumped.
C9_Witness ==
    /\ pc = "done"
    /\ args.ignore_file = IgnoreFilePath
    /\ args.include_file = IncludeFilePath
    /\ match_file(include_spec, IgnoreFilePath)
    /\ match_file(include_spec, IncludeFilePath)
    /\ Included(IgnoreFilePath)
    /\ Included(IncludeFilePath)
    /\ \A d \in Ancestors(IncludeFilePath) :
          d \in {walked[i] : i \in 1..Len(walked)}
          /\ \E i \in 1..Len(out) : out[i].kind = "tree" /\ out[i].path = d
    /\ \E i \in 1..Len(out) :
          out[i].kind = "marker" /\ Ancestors(out[i].path) = Ancestors(IncludeFilePath)

\* The directories below the root whose own inclusion, and that of every
\* directory above them, is true.
Reachable ==
    {d \in AllPaths :
        \A k \in 1..Len(d) : isdir(SubSeq(d, 1, k)) /\ Included(SubSeq(d, 1, k))}

\* C10: in the content dump a directory for which should_include is false is
\* never descended into: no file at any depth beneath it gets a path marker
\* or a content block, and the directories walked are exactly those whose own
\* inclusion, and that of the directories above them, is true.
C10_PrunedNotDescended ==
    /\ \A i \in 1..Len(out) :
          out[i].kind \in {"marker", "content", "placeholder"} =>
              \A d \in Ancestors(out[i].path) : Included(d)
    /\ {walked[i] : i \in 1..Len(walked)} \subseteq Reachable \cup {<< >>}
    /\ pc = "done" => {walked[i] : i \in 1..Len(walked)} = Reachable \cup {<< >>}

\* An export ended that pruned a directory holding, two levels down, a file
\* for which should_include is true, while dumping another file.
C10_Witness ==
    /\ pc = "done"
    /\ \E f \in AllPaths :
          /\ isfile(f)
          /\ Len(f) >= 3
          /\ ~Included(SubSeq(f, 1, 1))
          /\ Included(f)
          /\ f \notin exclude_files
          /\ ~HasMarker(f)
    /\ \E i \in 1..Len(out) : out[i].kind = "marker"

\* C11: a failure to open the destination stream, or of any write to it at
\* any point of the export, is fatal: export_folder_contents never returns
\* normally after one.
C11_WriteFailureFatal == pc = "done" => write_errors = 0

\* The regular files both sections are to show: not in the exclusion set,
\* included, and below included directories only.
Admitted(f) ==
    /\ isfile(f)
    /\ f \notin exclude_files
    /\ Included(f)
    /\ \A d \in Ancestors(f) : Included(d)

AdmittedFiles == {f \in AllPaths : Admitted(f)}

PathsOf(kind) == {out[i].path : i \in {k \in 1..Len(out) : out[k].kind = kind}}

HasLiteral(str) == \E i \in 1..Len(out) : out[i] = Literal(str)

\* C12: a failure to read an admitted source file is local: its marker is
\* written, a placeholder takes the place of its content and the separator
\* follows, every remaining admitted file is still dumped, and when every
\* write succeeds the export returns normally with both headers, whatever the
\* set of unreadable files.
C12_ReadFailureLocal ==
    /\ pc = "raised" => write_errors > 0
    /\ write_errors = 0 =>
          \A i \in 1..Len(out) :
              (out[i].kind = "marker" /\ ~readable(out[i].path)) =>
                  /\ i + 2 <= Len(out)
                  /\ out[i + 1].kind = "placeholder"
                  /\ out[i + 1].path = out[i].path
                  /\ out[i + 2] = Literal("\n\n")
    /\ (pc = "done" /\ write_errors = 0) =>
          /\ HasLiteral("DIRECTORY STRUCTURE\n")
          /\ HasLiteral("FILE CONTENTS\n")
          /\ AdmittedFiles \subseteq PathsOf("marker")

\* An export returned in which some but not all names are unreadable, an
\* unreadable admitted file was dumped, and a readable one was dumped after it.
C12_Witness ==
    /\ pc = "done"
    /\ unreadable /= {}
    /\ unreadable /= Names
    /\ \E i \in 1..Len(out), j \in 1..Len(out) :
          /\ i < j
          /\ out[i].kind = "placeholder"
          /\ out[i].str = "PermissionError"
          /\ Admitted(out[i].path)
          /\ out[j].kind = "content"
          /\ readable(out[j].path)

\* C13: the writes come in a fixed order: the DIRECTORY STRUCTURE header with
\* its blank line, every tree line, a blank line, the FILE CONTENTS header with
\* its blank line, then the content blocks; each header is written once, no
\* marker comes before the last tree line and no tree line after the FILE
\* CONTENTS header.
C13_SectionOrder ==
    LET body == 3 + Len(TreeLinesOf(out))
    IN  /\ \A i \in 1..Len(out) :
              /\ i = 1 => out[i] = Literal("================\n")
              /\ i = 2 => out[i] = Literal("DIRECTORY STRUCTURE\n")
              /\ i = 3 => out[i] = Literal("================\n\n")
              /\ (3 < i /\ i <= body) => out[i].kind = "tree"
              /\ i = body + 1 => out[i] = Literal("\n")
              /\ i = body + 2 => out[i] = Literal("================\n")
              /\ i = body + 3 => out[i] = Literal("FILE CONTENTS\n")
              /\ i = body + 4 => out[i] = Literal("================\n\n")
              /\ i = body + 5 => out[i].kind = "marker"
              /\ i > body + 4 =>
                    \/ out[i].kind \in {"marker", "content", "placeholder"}
                    \/ out[i] = Literal("\n\n")
        /\ pc = "contents" => Len(out) = body + 1
        /\ pc \in {"walk", "done"} => Len(out) >= body + 4

\* An export returned that wrote tree lines and content blocks.
C13_Witness ==
    /\ pc = "done"
    /\ Len(TreeLinesOf(out)) >= 2
    /\ \E i \in 1..Len(out), j \in 1..Len(out) :
          /\ i < j
          /\ out[i].kind = "marker"
          /\ out[j].kind = "marker"

Parent(path) == SubSeq(path, 1, Len(path) - 1)

\* C14: the blocks of the files of one directory come in lexicographic order
\* of file name and its subdirectories are visited in lexicographic order,
\* whatever order the filesystem lists the entries in.
C14_LexicographicDump ==
    /\ \A i \in 1..Len(out), j \in 1..Len(out) :
          (/\ i < j
           /\ out[i].kind = "marker"
           /\ out[j].kind = "marker"
           /\ Parent(out[i].path) = Parent(out[j].path)) =>
              out[i].path[Len(out[i].path)] < out[j].path[Len(out[j].path)]
    /\ \A i \in 1..Len(walked), j \in 1..Len(walked) :
          (/\ i < j
           /\ walked[i] /= << >>
           /\ walked[j] /= << >>
           /\ Parent(walked[i]) = Parent(walked[j])) =>
              walked[i][Len(walked[i])] < walked[j][Len(walked[j])]

\* C15: in should_include a matcher is present when it was supplied, however
\* many patterns it holds: with an include matcher supplied and no ignore
\* matcher a path is included iff the include matcher matches it, and with a
\* supplied ignore matcher without patterns and an include matcher every path
\* is included.
C15_PresentWhenSupplied ==
    si_result /= "unset" =>
        /\ (si_include.given /\ ~si_ignore.given) =>
              (si_result = "True") = match_file(si_include, si_path)
        /\ (si_include.given /\ si_ignore.given /\ si_ignore.patterns = {}) =>
              si_result = "True"

HasTreeLine(path) == \E i \in 1..Len(out) : out[i].kind = "tree" /\ out[i].path = path

\* C16: the tree renderer and the content dumper select the same files: a
\* regular file has a line in the rendered tree iff it has a path marker in
\* the dump, namely iff it is not in the exclusion set and should_include
\* holds for it and for each directory above it.
C16_TreeAndDumpAgree ==
    LET tree_files == {f \in PathsOf("tree") : isfile(f)}
    IN  /\ PathsOf("marker") \subseteq tree_files
        /\ pc \in {"contents", "done"} => tree_files = AdmittedFiles
        /\ pc = "done" => PathsOf("marker") = tree_files

\* An export returned that shows a file in both sections and leaves out of
\* both a file the rules reject, a file under a rejected directory that the
\* rules accept, and a pattern file the rules accept.
C16_Witness ==
    /\ pc = "done"
    /\ \E f \in AllPaths : isfile(f) /\ HasMarker(f) /\ HasTreeLine(f)
    /\ \E f \in AllPaths :
          /\ isfile(f)
          /\ ~Included(f)
          /\ \A d \in Ancestors(f) : Included(d)
    /\ \E f \in AllPaths :
          /\ isfile(f)
          /\ Included(f)
          /\ f \notin exclude_files
          /\ \E d \in Ancestors(f) : ~Included(d)
    /\ \E f \in exclude_files : Included(f) /\ \A d \in Ancestors(f) : Included(d)

====
